---- MODULE Spec2Model ----
(***************************************************************************)
(* Push-to-talk dictation session engine (justspeak).                      *)
(*                                                                         *)
(* Threads and tasks modelled, each with its own program counter:          *)
(*   - the session state machine (main.rs, fn main)                        *)
(*   - the cpal input callback (audio.rs, AudioCapture::new)               *)
(*   - one streaming task per session (main.rs, streaming_transcription)   *)
(*     with its receiver task (recv_task)                                  *)
(*   - the overlay thread of the current session (overlay.rs)              *)
(*   - the key listener threads feeding the event channel (input.rs)       *)
(*                                                                         *)
(* Audio is counted in device frames of FrameSamples samples each; a text  *)
(* is a sequence of one-character strings.                                 *)
(***************************************************************************)
EXTENDS Integers, Sequences, FiniteSets, TLC

\* ---- bounds of the model ----
MaxSessions == 2
MaxFrames == 2
MaxQueue == 1
MaxEvents == 3
MaxPartials == 1
\* samples per device callback (0.15 s at 16 kHz)
FrameSamples == 2400

\* ---- program constants ----
WHISPER_SAMPLE_RATE == 16000

Sessions == 1..MaxSessions

VARIABLES
    no_overlay,     \* Args::no_overlay
    state,          \* main: `state`
    pc,             \* main: position in the session loop
    events,         \* the unbounded key event channel (tx -> rx)
    nEvents,        \* key events produced so far
    sess,           \* number of start_recording calls so far = current session
    recording,      \* AudioCapture::recording (the armed flag)
    buffer,         \* AudioCapture::buffer
    cbPc,           \* input callback: "idle" or "loaded" (flag read, lock not yet taken)
    cbFrame,        \* the frame held by a callback between flag read and append
    nFrames,        \* frames delivered by the device to an armed callback so far
    samples,        \* main: `samples` returned by stop_recording
    stream_result,  \* main: `stream_result`
    final_text,     \* main: `final_text`
    stop,           \* per session: stop_flag
    taskPc,         \* per session: position of streaming_transcription
    last_sent,      \* per session: `last_sent`
    taskResult,     \* per session: value returned by streaming_transcription
    recvPc,         \* per session: position of recv_task
    recvText,       \* per session: recv_task's `final_text`
    nPartials,      \* per session: partials forwarded by recv_task
    ovSess,         \* session whose overlay thread was spawned last
    ovPc,           \* overlay thread: "none", "running", "exited"
    ovQueue,        \* overlay command channel
    ovPhase,        \* OverlayState::phase
    ovText,         \* OverlayState::text
    wsOpen,         \* per session: connect_async succeeded
    sent,           \* per session: samples handed to write.send in binary frames
    doneSent,       \* per session: number of "done" markers sent
    batchLog,       \* this session: inputs of Transcriber::transcribe calls
    batchErr,       \* this session: a Transcriber::transcribe call returned Err
    pasteLog,       \* this session: arguments of paste_text calls made by main
    pasteErr,       \* this session: a paste::paste_text call returned Err
    ovLog,          \* this session: commands main sent through overlay_handle
    taken,          \* this session: result of stop_recording (<<"none">> before)
    relShort,       \* this session: less than 0.3 s were captured when Release was handled
    enc,            \* the two encoders at work on one sample (see EncSpec)
    rcv,            \* a recv_task at work on a stream of messages (see RecvSpec)
    health,         \* outcome of the health check of Transcriber::new (see StartSpec)
    lk,             \* the buffer mutex and the threads using it (see LockSpec)
    ovs             \* an OverlayState at work on a run of commands (see PollSpec)

mainVars == <<no_overlay, state, pc, sess, samples, stream_result, final_text>>
audioVars == <<recording, buffer, cbPc, cbFrame, nFrames>>
chanVars == <<events, nEvents>>
taskVars == <<stop, taskPc, last_sent, taskResult, recvPc, recvText, nPartials>>
ovVars == <<ovSess, ovPc, ovQueue, ovPhase, ovText>>
histVars == <<wsOpen, sent, doneSent, batchLog, batchErr, pasteLog, pasteErr, ovLog, taken,
             relShort>>
unitVars == <<enc, rcv, health, lk, ovs>>
vars == <<mainVars, audioVars, chanVars, taskVars, ovVars, histVars, unitVars>>

\* ---- texts ----
Chars == {"a", " "}
EmptyText == <<>>
\* texts a server can put in the "text" field of a final message
WireTexts == {EmptyText, <<"a">>}
\* texts a server can put in the "text" field of a partial message
PartialTexts == {<<"a">>}
\* bodies a server can answer to POST /transcribe/
Bodies == {EmptyText, <<" ">>, <<"a", " ">>}
Pending == [kind |-> "pending", text |-> <<>>]
TimedOut == [kind |-> "timeout", text |-> <<>>]
Failed == [kind |-> "err", text |-> <<>>]
OkText(t) == [kind |-> "ok", text |-> t]
NotTaken == <<"none">>

RECURSIVE TrimStart(_)
TrimStart(t) == IF t # <<>> /\ Head(t) = " " THEN TrimStart(Tail(t)) ELSE t

RECURSIVE TrimEnd(_)
TrimEnd(t) ==
    IF t # <<>> /\ t[Len(t)] = " " THEN TrimEnd(SubSeq(t, 1, Len(t) - 1)) ELSE t

\* str::trim
Trim(t) == TrimEnd(TrimStart(t))

\* String::is_empty
IsEmptyText(t) == Len(t) = 0

\* ---- audio.rs ----

\* `samples.len() as f32 / 16_000.0`, compared with 0.3 (n frames of audio)
DurationBelow(n) == n * FrameSamples * 10 < 3 * WHISPER_SAMPLE_RATE

\* the threshold taken as 0.1 s
TooShortTenth(s) == Len(s) * FrameSamples * 10 < 1 * WHISPER_SAMPLE_RATE

\* main.rs: `duration < 0.3`
TooShort(s) == DurationBelow(Len(s))

\* a copy that misses the newest frame
snapshotStale == SubSeq(buffer, 1, Len(buffer) - 1)

\* AudioBufferHandle::snapshot
snapshot == buffer

\* `&samples[last_sent..]`
SliceFrom(s, from) == SubSeq(s, from + 1, Len(s))


\* ---- overlay.rs: command channel ----

UpdateText(t) == [cmd |-> "UpdateText", text |-> t]
Finish(t) == [cmd |-> "Finish", text |-> t]
Close == [cmd |-> "Close", text |-> EmptyText]
\* "Transcription server unreachable"
UnreachableText == <<"!">>

\* a command queued whether or not a thread is there to receive it
ChannelSendQueued(s, cmd) == Append(ovQueue, cmd)

\* mpsc::Sender::send on the channel of session s: queued while the receiving
\* overlay thread lives, Err (ignored by every caller) once it has dropped rx
ChannelSend(s, cmd) ==
    IF ovSess = s /\ ovPc = "running" THEN Append(ovQueue, cmd) ELSE ovQueue

\* OverlayHandle::send, as called by main for the current session
OverlaySend(cmd) ==
    /\ ovQueue' = ChannelSend(sess, cmd)
    /\ ovLog' = Append(ovLog, cmd)

\* ---- main.rs: resolution of the transcript ----

\* the streaming result never taken
StreamNeverUsable(r) == FALSE

\* any returned text taken, the empty one too
StreamUsableUnguarded(r) == r.kind \in {"ok", "err"}

\* the guard on the text left out
StreamUsableAnyOk(r) == r.kind = "ok"

\* `Ok(Ok(Ok(text))) if !text.is_empty()`
StreamUsable(r) == r.kind = "ok" /\ ~IsEmptyText(r.text)

\* the emptiness check left out
NothingToDeliverNever(t) == FALSE

\* `if final_text.is_empty()` / `Ok(text) if text.is_empty()`
NothingToDeliver(t) == IsEmptyText(t)

\* the first frame left out of the upload
BatchInputTail(s) == SliceFrom(s, 1)

\* the samples written by write_wav and uploaded by Transcriber::transcribe
BatchInput(s) == s

Alive == pc # "exited"

\* positions of main before the session loop (see StartSpec)
StartStages == {"check_wtype", "new_transcriber", "new_audio", "spawn_listener"}

\* input::spawn_listener has run
Listening == pc \notin StartStages

\* no sample given to the encoders
EncIdle == [sample |-> 0, s16le |-> <<>>, wav |-> <<>>]

\* nothing captured, no task, no overlay, nothing sent yet
NoSession ==
    /\ no_overlay \in BOOLEAN
    /\ state = "Idle"
    /\ events = <<>>
    /\ sess = 0
    /\ recording = FALSE
    /\ buffer = <<>>
    /\ cbPc = "idle"
    /\ cbFrame = <<>>
    /\ nFrames = 0
    /\ samples = <<>>
    /\ stream_result = Pending
    /\ final_text = EmptyText
    /\ stop = [s \in Sessions |-> FALSE]
    /\ taskPc = [s \in Sessions |-> "none"]
    /\ last_sent = [s \in Sessions |-> 0]
    /\ taskResult = [s \in Sessions |-> Pending]
    /\ recvPc = [s \in Sessions |-> "none"]
    /\ recvText = [s \in Sessions |-> EmptyText]
    /\ nPartials = [s \in Sessions |-> 0]
    /\ ovSess = 0
    /\ ovPc = "none"
    /\ ovQueue = <<>>
    /\ ovPhase = "Recording"
    /\ ovText = EmptyText
    /\ wsOpen = [s \in Sessions |-> FALSE]
    /\ sent = [s \in Sessions |-> <<>>]
    /\ doneSent = [s \in Sessions |-> 0]
    /\ batchLog = <<>>
    /\ batchErr = FALSE
    /\ pasteLog = <<>>
    /\ pasteErr = FALSE
    /\ ovLog = <<>>
    /\ taken = NotTaken
    /\ relShort = FALSE

\* no recv_task under observation
RecvIdle == [inbox |-> <<>>, read |-> <<>>, final_text |-> EmptyText, ended |-> FALSE,
             fwd |-> <<>>]

\* the session engine after the setup of main
SessionInit == NoSession /\ pc = "recv" /\ nEvents = 0

\* Transcriber::new not followed
HealthUnknown == "none"

\* threads that lock the sample buffer: the input callback, the sender loop
\* (snapshot), main (start_recording, stop_recording)
Threads == {"callback", "sender", "main"}

\* OverlayState as created by run_overlay_thread, no command under way
OverlayIdle == [queue |-> <<>>, applied |-> <<>>, phase |-> "Recording",
                text |-> EmptyText, done |-> FALSE]

\* the buffer lock not followed
LockIdle == [holder |-> "free", pcs |-> [t \in Threads |-> "idle"],
             ops |-> [t \in Threads |-> 0], len |-> 0]

Init ==
    /\ SessionInit
    /\ enc = EncIdle
    /\ rcv = RecvIdle
    /\ health = HealthUnknown
    /\ lk = LockIdle
    /\ ovs = OverlayIdle

\* ---- input.rs / midi.rs: listener threads ----

\* tx.send(KeyEvent::AltGrPressed) / tx.send(KeyEvent::AltGrReleased)
KeyEvent(e) ==
    /\ Alive
    /\ Listening
    /\ Len(events) < MaxQueue
    /\ nEvents < MaxEvents
    /\ events' = Append(events, e)
    /\ nEvents' = nEvents + 1
    /\ UNCHANGED <<mainVars, audioVars, taskVars, ovVars, histVars>>
    /\ UNCHANGED unitVars

\* ---- audio.rs: input callback ----

\* `if rec_clone.load(Ordering::Relaxed)`: a frame delivered while the flag
\* reads false is dropped without any effect
CallbackLoad ==
    /\ Alive
    /\ cbPc = "idle"
    /\ recording
    /\ nFrames < MaxFrames
    /\ cbPc' = "loaded"
    /\ cbFrame' = <<sess, nFrames + 1>>
    /\ nFrames' = nFrames + 1
    /\ UNCHANGED <<recording, buffer, mainVars, chanVars, taskVars, ovVars, histVars>>
    /\ UNCHANGED unitVars

\* the frame put in front of the samples held
CallbackPrepend ==
    /\ Alive
    /\ cbPc = "loaded"
    /\ buffer' = <<cbFrame>> \o buffer
    /\ cbPc' = "idle"
    /\ cbFrame' = <<>>
    /\ UNCHANGED <<recording, nFrames, mainVars, chanVars, taskVars, ovVars, histVars>>
    /\ UNCHANGED unitVars

\* `buf_clone.lock()` ... `buf.extend_from_slice(data)`
CallbackAppend ==
    /\ Alive
    /\ cbPc = "loaded"
    /\ buffer' = Append(buffer, cbFrame)
    /\ cbPc' = "idle"
    /\ cbFrame' = <<>>
    /\ UNCHANGED <<recording, nFrames, mainVars, chanVars, taskVars, ovVars, histVars>>
    /\ UNCHANGED unitVars


\* ---- main.rs: the session loop ----

\* A streaming task that has returned holds no state any more once main has
\* left its session (the future and its JoinHandle are dropped); likewise its
\* recv_task.
TaskDropped(s) == taskPc[s] \in {"none", "finished"}
RecvDropped(s) == recvPc[s] \in {"none", "ended"} /\ TaskDropped(s)

\* value of a per-task variable f once the task (the recv_task) is dropped
Reclaim(f, init) == [s \in Sessions |-> IF TaskDropped(s) THEN init ELSE f[s]]
ReclaimRecv(f, init) == [s \in Sessions |-> IF RecvDropped(s) THEN init ELSE f[s]]
\* value of a per-task variable that nothing reads any more once main has left
\* the session: the text a recv_task returns to a task whose result is dropped,
\* the count of partials forwarded to an overlay that has been joined
Forget(f, init) == [s \in Sessions |-> init]

\* (State::Idle, AltGrPressed): start_recording, `buffer.lock().unwrap().clear()`.
\* The locals of the previous session are gone, and so is the state of the
\* streaming tasks that have returned.
MainPress ==
    /\ pc = "recv"
    /\ state = "Idle"
    /\ events # <<>>
    /\ Head(events) = "Pressed"
    /\ sess < MaxSessions
    /\ events' = Tail(events)
    /\ UNCHANGED nEvents
    /\ sess' = sess + 1
    /\ buffer' = <<>>
    /\ pc' = "start_arm"
    /\ samples' = <<>>
    /\ stream_result' = Pending
    /\ final_text' = EmptyText
    /\ taskPc' = Reclaim(taskPc, "none")
    /\ last_sent' = Reclaim(last_sent, 0)
    /\ taskResult' = Reclaim(taskResult, Pending)
    /\ recvPc' = ReclaimRecv(recvPc, "none")
    /\ recvText' = Forget(recvText, EmptyText)
    /\ nPartials' = Forget(nPartials, 0)
    /\ wsOpen' = Reclaim(wsOpen, FALSE)
    /\ sent' = Reclaim(sent, <<>>)
    /\ doneSent' = Reclaim(doneSent, 0)
    /\ batchLog' = <<>>
    /\ batchErr' = FALSE
    /\ pasteLog' = <<>>
    /\ pasteErr' = FALSE
    /\ ovLog' = <<>>
    /\ taken' = NotTaken
    /\ relShort' = FALSE
    /\ UNCHANGED <<no_overlay, state, recording, cbPc, cbFrame, nFrames, stop, ovVars>>
    /\ UNCHANGED unitVars

\* the overlay and the streaming task started whatever --no-overlay says
MainStartArmAlwaysStream ==
    /\ pc = "start_arm"
    /\ recording' = TRUE
    /\ ovSess' = sess
    /\ ovPc' = "running"
    /\ ovQueue' = <<>>
    /\ ovPhase' = "Recording"
    /\ ovText' = EmptyText
    /\ taskPc' = [taskPc EXCEPT ![sess] = "connecting"]
    /\ pc' = "wait_release"
    /\ UNCHANGED <<state, stop, last_sent, taskResult, recvPc, recvText, nPartials>>
    /\ UNCHANGED <<no_overlay, sess, samples, stream_result, final_text, chanVars,
                   buffer, cbPc, cbFrame, nFrames, histVars>>
    /\ UNCHANGED unitVars

\* start_recording, `recording.store(true)`; then either spawn_overlay and
\* tokio::spawn(streaming_transcription), or `state = State::Recording`
MainStartArm ==
    /\ pc = "start_arm"
    /\ recording' = TRUE
    /\ IF no_overlay
       THEN /\ state' = "Recording"
            /\ pc' = "recv"
            /\ UNCHANGED <<taskVars, ovVars>>
       ELSE /\ ovSess' = sess
            /\ ovPc' = "running"
            /\ ovQueue' = <<>>
            /\ ovPhase' = "Recording"
            /\ ovText' = EmptyText
            /\ taskPc' = [taskPc EXCEPT ![sess] = "connecting"]
            /\ pc' = "wait_release"
            /\ UNCHANGED <<state, stop, last_sent, taskResult, recvPc, recvText, nPartials>>
    /\ UNCHANGED <<no_overlay, sess, samples, stream_result, final_text, chanVars,
                   buffer, cbPc, cbFrame, nFrames, histVars>>
    /\ UNCHANGED unitVars

\* a repeated press restarting the recording
MainWaitRepeatRestart ==
    /\ pc = "wait_release"
    /\ events # <<>>
    /\ Head(events) = "Pressed"
    /\ events' = Tail(events)
    /\ buffer' = <<>>
    /\ UNCHANGED <<mainVars, nEvents, recording, cbPc, cbFrame, nFrames, taskVars,
                   ovVars, histVars>>
    /\ UNCHANGED unitVars

\* inner loop, `Some(KeyEvent::AltGrPressed) => continue`
MainWaitRepeat ==
    /\ pc = "wait_release"
    /\ events # <<>>
    /\ Head(events) = "Pressed"
    /\ events' = Tail(events)
    /\ UNCHANGED nEvents
    /\ UNCHANGED <<mainVars, audioVars, taskVars, ovVars, histVars>>
    /\ UNCHANGED unitVars

\* inner loop, `Some(KeyEvent::AltGrReleased) => break`, then
\* `stop_flag.store(true)` (the outcome of the health check is followed up to
\* the first Release)
MainWaitRelease ==
    /\ pc = "wait_release"
    /\ events # <<>>
    /\ Head(events) = "Released"
    /\ events' = Tail(events)
    /\ UNCHANGED nEvents
    /\ stop' = [stop EXCEPT ![sess] = TRUE]
    /\ relShort' = TooShort(buffer)
    /\ pc' = "await_stream"
    /\ UNCHANGED <<no_overlay, state, sess, samples, stream_result, final_text,
                   audioVars, taskPc, last_sent, taskResult, recvPc, recvText, nPartials,
                   ovVars, wsOpen, sent, doneSent, batchLog, batchErr, pasteLog, pasteErr, ovLog, taken>>
    /\ health' = HealthUnknown
    /\ UNCHANGED <<enc, rcv, lk, ovs>>

\* `timeout(15 s, stream_task).await` when the task has returned
MainStreamJoined ==
    /\ pc = "await_stream"
    /\ taskPc[sess] = "finished"
    /\ stream_result' = taskResult[sess]
    /\ pc' = "stop_store"
    /\ UNCHANGED <<no_overlay, state, sess, samples, final_text, chanVars, audioVars,
                   taskVars, ovVars, histVars>>
    /\ UNCHANGED unitVars

\* The 15 s can only run out on a task held up by the network: past the
\* connection the sender ticks every 100 ms and waits at most 10 s.
StreamTaskStalled(s) == taskPc[s] = "connecting"

\* `timeout(15 s, stream_task).await` when the 15 s run out: Err(Elapsed), the
\* JoinHandle is dropped and the task keeps running
MainStreamTimeout ==
    /\ pc = "await_stream"
    /\ StreamTaskStalled(sess)
    /\ stream_result' = TimedOut
    /\ pc' = "stop_store"
    /\ UNCHANGED <<no_overlay, state, sess, samples, final_text, chanVars, audioVars,
                   taskVars, ovVars, histVars>>
    /\ UNCHANGED unitVars

\* (State::Recording, AltGrReleased) if args.no_overlay
MainReleaseNoOverlay ==
    /\ pc = "recv"
    /\ state = "Recording"
    /\ no_overlay
    /\ events # <<>>
    /\ Head(events) = "Released"
    /\ events' = Tail(events)
    /\ UNCHANGED nEvents
    /\ relShort' = TooShort(buffer)
    /\ pc' = "stop_store"
    /\ UNCHANGED <<no_overlay, state, sess, samples, stream_result, final_text,
                   audioVars, taskVars, ovVars, wsOpen, sent, doneSent, batchLog, batchErr,
                   pasteLog, pasteErr, ovLog, taken>>
    /\ health' = HealthUnknown
    /\ UNCHANGED <<enc, rcv, lk, ovs>>

\* the buffer taken with capture left armed
MainStopStoreSkipped ==
    /\ pc = "stop_store"
    /\ UNCHANGED recording
    /\ pc' = "stop_take"
    /\ UNCHANGED <<no_overlay, state, sess, samples, stream_result, final_text, chanVars,
                   buffer, cbPc, cbFrame, nFrames, taskVars, ovVars, histVars>>
    /\ UNCHANGED unitVars

\* stop_recording, `recording.store(false)`
MainStopStore ==
    /\ pc = "stop_store"
    /\ recording' = FALSE
    /\ pc' = "stop_take"
    /\ UNCHANGED <<no_overlay, state, sess, samples, stream_result, final_text, chanVars,
                   buffer, cbPc, cbFrame, nFrames, taskVars, ovVars, histVars>>
    /\ UNCHANGED unitVars

\* stop_recording, `std::mem::take(&mut *buffer.lock().unwrap())`, then
\* `if duration < 0.3 { ... continue }`
MainStopTake ==
    /\ pc = "stop_take"
    /\ samples' = buffer
    /\ buffer' = <<>>
    /\ taken' = buffer
    /\ IF TooShort(buffer)
       THEN IF no_overlay
            THEN /\ state' = "Idle"
                 /\ pc' = "recv"
                 /\ UNCHANGED <<ovQueue, ovLog>>
            ELSE /\ OverlaySend(Close)
                 /\ pc' = "join_idle"
                 /\ UNCHANGED state
       ELSE /\ pc' = IF no_overlay THEN "transcribe" ELSE "resolve"
            /\ UNCHANGED <<state, ovQueue, ovLog>>
    /\ UNCHANGED <<no_overlay, sess, stream_result, final_text, chanVars, recording,
                   cbPc, cbFrame, nFrames, taskVars, ovSess, ovPc, ovPhase, ovText,
                   wsOpen, sent, doneSent, batchLog, batchErr, pasteLog, pasteErr, relShort>>
    /\ UNCHANGED unitVars

\* `Ok(Ok(Ok(text))) if !text.is_empty() => text`
MainResolveStream ==
    /\ pc = "resolve"
    /\ StreamUsable(stream_result)
    /\ final_text' = stream_result.text
    /\ pc' = "deliver"
    /\ UNCHANGED <<no_overlay, state, sess, samples, stream_result, chanVars, audioVars,
                   taskVars, ovVars, histVars>>
    /\ UNCHANGED unitVars

\* `other => { ... }`: tempfile()?, write_wav()?, transcriber.transcribe()
MainFallback ==
    /\ pc = "resolve"
    /\ ~StreamUsable(stream_result)
    /\ \/ \* tempfile or write_wav fails: `?` returns the error from main
          /\ pc' = "exited"
          /\ UNCHANGED <<final_text, batchLog, batchErr, ovQueue, ovLog>>
       \/ \* transcribe returns Err
          /\ batchLog' = Append(batchLog, BatchInput(samples))
          /\ batchErr' = TRUE
          /\ OverlaySend(UpdateText(UnreachableText))
          /\ pc' = "fb_sleep"
          /\ UNCHANGED final_text
       \/ \* transcribe returns Ok(body.trim())
          \E body \in Bodies :
             /\ batchLog' = Append(batchLog, BatchInput(samples))
             /\ UNCHANGED batchErr
             /\ final_text' = Trim(body)
             /\ pc' = "deliver"
             /\ UNCHANGED <<ovQueue, ovLog>>
    /\ UNCHANGED <<no_overlay, state, sess, samples, stream_result, chanVars, audioVars,
                   taskVars, ovSess, ovPc, ovPhase, ovText, wsOpen, sent, doneSent,
                   pasteLog, pasteErr, taken, relShort>>
    /\ UNCHANGED unitVars

\* after the sleep the match on the streaming result is entered again
MainFallbackRetry ==
    /\ pc = "fb_sleep"
    /\ pc' = "resolve"
    /\ UNCHANGED <<no_overlay, state, sess, samples, stream_result, final_text, chanVars,
                   audioVars, taskVars, ovVars, histVars>>
    /\ UNCHANGED unitVars

\* after the sleep the overlay is joined without a Close
MainFallbackCloseSkipped ==
    /\ pc = "fb_sleep"
    /\ pc' = "join_idle"
    /\ UNCHANGED <<no_overlay, state, sess, samples, stream_result, final_text, chanVars,
                   audioVars, taskVars, ovVars, histVars>>
    /\ UNCHANGED unitVars

\* after `sleep(2 s)`: send(Close), join() follows
MainFallbackClose ==
    /\ pc = "fb_sleep"
    /\ OverlaySend(Close)
    /\ pc' = "join_idle"
    /\ UNCHANGED <<no_overlay, state, sess, samples, stream_result, final_text, chanVars,
                   audioVars, taskVars, ovSess, ovPc, ovPhase, ovText, wsOpen, sent,
                   doneSent, batchLog, batchErr, pasteLog, pasteErr, taken, relShort>>
    /\ UNCHANGED unitVars

\* `if final_text.is_empty() { send(Close) ... }` else `send(Finish(..))`
MainDeliver ==
    /\ pc = "deliver"
    /\ IF NothingToDeliver(final_text)
       THEN /\ OverlaySend(Close)
            /\ pc' = "join_idle"
       ELSE /\ OverlaySend(Finish(final_text))
            /\ pc' = "join_paste"
    /\ UNCHANGED <<no_overlay, state, sess, samples, stream_result, final_text, chanVars,
                   audioVars, taskVars, ovSess, ovPc, ovPhase, ovText, wsOpen, sent,
                   doneSent, batchLog, batchErr, pasteLog, pasteErr, taken, relShort>>
    /\ UNCHANGED unitVars

\* the events that came in during the session thrown away at its end
MainJoinIdleDrain ==
    /\ pc = "join_idle"
    /\ ovPc = "exited"
    /\ state' = "Idle"
    /\ pc' = "recv"
    /\ events' = <<>>
    /\ UNCHANGED <<no_overlay, sess, samples, stream_result, final_text, nEvents,
                   audioVars, taskVars, ovVars, histVars>>
    /\ UNCHANGED unitVars

\* `overlay_handle.join(); state = State::Idle; continue`
MainJoinIdle ==
    /\ pc = "join_idle"
    /\ ovPc = "exited"
    /\ state' = "Idle"
    /\ pc' = "recv"
    /\ UNCHANGED <<no_overlay, sess, samples, stream_result, final_text, chanVars,
                   audioVars, taskVars, ovVars, histVars>>
    /\ UNCHANGED unitVars

\* the text pasted without waiting for the overlay thread
MainPasteNoJoin ==
    /\ pc = "join_paste"
    /\ pasteLog' = Append(pasteLog, final_text)
    /\ pasteErr' \in BOOLEAN
    /\ state' = "Idle"
    /\ pc' = "recv"
    /\ UNCHANGED <<no_overlay, sess, samples, stream_result, final_text, chanVars,
                   audioVars, taskVars, ovVars, wsOpen, sent, doneSent, batchLog, batchErr, ovLog,
                   taken, relShort>>
    /\ UNCHANGED unitVars

\* paste_text is called again after an Err
MainJoinPasteRetry ==
    /\ pc = "join_paste"
    /\ ovPc = "exited"
    /\ pasteLog' = Append(pasteLog, final_text)
    /\ pasteErr' \in BOOLEAN
    /\ state' = "Idle"
    /\ pc' = IF pasteErr' THEN "join_paste" ELSE "recv"
    /\ UNCHANGED <<no_overlay, sess, samples, stream_result, final_text, chanVars,
                   audioVars, taskVars, ovVars, wsOpen, sent, doneSent, batchLog, batchErr, ovLog,
                   taken, relShort>>
    /\ UNCHANGED unitVars

\* `overlay_handle.join(); paste::paste_text(&final_text); state = State::Idle`
\* (an Err of paste_text is logged only: pasteErr remembers it)
MainJoinPaste ==
    /\ pc = "join_paste"
    /\ ovPc = "exited"
    /\ pasteLog' = Append(pasteLog, final_text)
    /\ pasteErr' \in BOOLEAN
    /\ state' = "Idle"
    /\ pc' = "recv"
    /\ UNCHANGED <<no_overlay, sess, samples, stream_result, final_text, chanVars,
                   audioVars, taskVars, ovVars, wsOpen, sent, doneSent, batchLog, batchErr, ovLog,
                   taken, relShort>>
    /\ UNCHANGED unitVars

\* --no-overlay: tempfile()?, write_wav()?, `match transcriber.transcribe(..)`
MainTranscribe ==
    /\ pc = "transcribe"
    /\ \/ /\ pc' = "exited"
          /\ UNCHANGED <<state, final_text, batchLog, batchErr, pasteLog, pasteErr>>
       \/ /\ batchLog' = Append(batchLog, BatchInput(samples))
          /\ batchErr' = TRUE
          /\ state' = "Idle"
          /\ pc' = "recv"
          /\ UNCHANGED <<final_text, pasteLog, pasteErr>>
       \/ \E body \in Bodies :
             /\ batchLog' = Append(batchLog, BatchInput(samples))
             /\ UNCHANGED batchErr
             /\ final_text' = Trim(body)
             /\ IF NothingToDeliver(Trim(body))
                THEN UNCHANGED <<pasteLog, pasteErr>>
                ELSE /\ pasteLog' = Append(pasteLog, Trim(body))
                     /\ pasteErr' \in BOOLEAN
             /\ state' = "Idle"
             /\ pc' = "recv"
    /\ UNCHANGED <<no_overlay, sess, samples, stream_result, chanVars, audioVars,
                   taskVars, ovVars, wsOpen, sent, doneSent, ovLog, taken, relShort>>
    /\ UNCHANGED unitVars

\* (Idle, Released), (Recording, Pressed), (Recording, Released) without
\* --no-overlay: `=> {}`
MainIgnore ==
    /\ pc = "recv"
    /\ events # <<>>
    /\ \/ state = "Idle" /\ Head(events) = "Released"
       \/ state = "Recording" /\ Head(events) = "Pressed"
       \/ state = "Recording" /\ Head(events) = "Released" /\ ~no_overlay
    /\ events' = Tail(events)
    /\ UNCHANGED nEvents
    /\ UNCHANGED <<mainVars, audioVars, taskVars, ovVars, histVars>>
    /\ UNCHANGED unitVars


\* ---- main.rs: streaming_transcription ----

\* main has moved on to a later session: nothing refers to the task of
\* session s any more once it returns
Orphan(s) == s < sess

\* streaming_transcription of session s returns r
TaskReturns(s, r) ==
    /\ taskPc' = [taskPc EXCEPT ![s] = IF Orphan(s) THEN "none" ELSE "finished"]
    /\ taskResult' = [taskResult EXCEPT ![s] = IF Orphan(s) THEN Pending ELSE r]
    /\ last_sent' = [last_sent EXCEPT ![s] = IF Orphan(s) THEN 0 ELSE @]
    /\ wsOpen' = [wsOpen EXCEPT ![s] = IF Orphan(s) THEN FALSE ELSE @]
    /\ sent' = [sent EXCEPT ![s] = IF Orphan(s) THEN <<>> ELSE @]
    /\ doneSent' = [doneSent EXCEPT ![s] = IF Orphan(s) THEN 0 ELSE @]

\* recv_task of session s returns with final_text = t
RecvReturns(s, t) ==
    LET gone == Orphan(s) /\ TaskDropped(s) IN
    /\ recvPc' = [recvPc EXCEPT ![s] = IF gone THEN "none" ELSE "ended"]
    /\ recvText' = [recvText EXCEPT ![s] = IF Orphan(s) THEN EmptyText ELSE t]
    /\ nPartials' = [nPartials EXCEPT ![s] = 0]

\* `connect_async(&ws_url).await.context(..)?` fails
TaskConnectFail(s) ==
    /\ Alive
    /\ taskPc[s] = "connecting"
    /\ TaskReturns(s, Failed)
    /\ UNCHANGED <<mainVars, chanVars, audioVars, stop, recvPc, recvText, nPartials,
                   ovVars, batchLog, batchErr, pasteLog, pasteErr, ovLog, taken, relShort>>
    /\ UNCHANGED unitVars

\* `connect_async(&ws_url).await` succeeds, recv_task is spawned, the first
\* tick of the interval is due at once
TaskConnect(s) ==
    /\ Alive
    /\ taskPc[s] = "connecting"
    /\ wsOpen' = [wsOpen EXCEPT ![s] = TRUE]
    /\ recvPc' = [recvPc EXCEPT ![s] = "running"]
    /\ taskPc' = [taskPc EXCEPT ![s] = "tick"]
    /\ UNCHANGED <<mainVars, chanVars, audioVars, stop, last_sent, taskResult, recvText,
                   nPartials, ovVars, sent, doneSent, batchLog, batchErr, pasteLog, pasteErr, ovLog, taken,
                   relShort>>
    /\ UNCHANGED unitVars

\* the whole snapshot sent again
ChunkWhole(snap, from) == snap

\* the samples of the binary frame of a tick:
\* `samples_to_s16le(&samples[last_sent..])`
Chunk(snap, from) == SliceFrom(snap, from)

\* a frame sent also when the snapshot ends at the cursor
HasNewOrNone(snap, from) == Len(snap) >= from

\* `if samples.len() > last_sent`
HasNew(snap, from) == Len(snap) > from

\* sender loop, stop flag not set: snapshot, send the new samples, advance
\* last_sent; a failed send leaves the loop
SenderTick(s) ==
    /\ Alive
    /\ taskPc[s] = "tick"
    /\ ~stop[s]
    /\ HasNew(snapshot, last_sent[s])
    /\ sent' = [sent EXCEPT ![s] = @ \o Chunk(snapshot, last_sent[s])]
    /\ \/ /\ last_sent' = [last_sent EXCEPT ![s] = Len(snapshot)]
          /\ UNCHANGED taskPc
       \/ /\ taskPc' = [taskPc EXCEPT ![s] = "await_recv"]
          /\ UNCHANGED last_sent
    /\ UNCHANGED <<mainVars, chanVars, audioVars, stop, taskResult, recvPc, recvText,
                   nPartials, ovVars, wsOpen, doneSent, batchLog, batchErr, pasteLog, pasteErr, ovLog, taken,
                   relShort>>
    /\ UNCHANGED unitVars

\* the loop left on the stop flag without the done marker
SenderFlushNoDone(s) ==
    /\ Alive
    /\ taskPc[s] = "tick"
    /\ stop[s]
    /\ sent' = IF HasNew(snapshot, last_sent[s])
               THEN [sent EXCEPT ![s] = @ \o Chunk(snapshot, last_sent[s])]
               ELSE sent
    /\ taskPc' = [taskPc EXCEPT ![s] = "await_recv"]
    /\ UNCHANGED <<mainVars, chanVars, audioVars, stop, last_sent, taskResult, recvPc,
                   recvText, nPartials, ovVars, wsOpen, doneSent, batchLog, batchErr, pasteLog, pasteErr,
                   ovLog, taken, relShort>>
    /\ UNCHANGED unitVars

\* sender loop, stop flag set: snapshot and send the remainder (result ignored)
SenderFlush(s) ==
    /\ Alive
    /\ taskPc[s] = "tick"
    /\ stop[s]
    /\ sent' = IF HasNew(snapshot, last_sent[s])
               THEN [sent EXCEPT ![s] = @ \o Chunk(snapshot, last_sent[s])]
               ELSE sent
    /\ taskPc' = [taskPc EXCEPT ![s] = "send_done"]
    /\ UNCHANGED <<mainVars, chanVars, audioVars, stop, last_sent, taskResult, recvPc,
                   recvText, nPartials, ovVars, wsOpen, doneSent, batchLog, batchErr, pasteLog, pasteErr,
                   ovLog, taken, relShort>>
    /\ UNCHANGED unitVars

\* the done marker sent without leaving the loop
SenderDoneNoBreak(s) ==
    /\ Alive
    /\ taskPc[s] = "send_done"
    /\ doneSent' = [doneSent EXCEPT ![s] = @ + 1]
    /\ taskPc' = [taskPc EXCEPT ![s] = "tick"]
    /\ UNCHANGED <<mainVars, chanVars, audioVars, stop, last_sent, taskResult, recvPc,
                   recvText, nPartials, ovVars, wsOpen, sent, batchLog, batchErr, pasteLog, pasteErr, ovLog,
                   taken, relShort>>
    /\ UNCHANGED unitVars

\* `write.send(Message::Text({"type":"done"}))`, `break`
SenderDone(s) ==
    /\ Alive
    /\ taskPc[s] = "send_done"
    /\ doneSent' = [doneSent EXCEPT ![s] = @ + 1]
    /\ taskPc' = [taskPc EXCEPT ![s] = "await_recv"]
    /\ UNCHANGED <<mainVars, chanVars, audioVars, stop, last_sent, taskResult, recvPc,
                   recvText, nPartials, ovVars, wsOpen, sent, batchLog, batchErr, pasteLog, pasteErr, ovLog,
                   taken, relShort>>
    /\ UNCHANGED unitVars

\* `timeout(10 s, recv_task).await`: Ok(Ok(text)) once recv_task has returned
TaskRecvJoined(s) ==
    /\ Alive
    /\ taskPc[s] = "await_recv"
    /\ recvPc[s] = "ended"
    /\ TaskReturns(s, OkText(recvText[s]))
    /\ recvPc' = [recvPc EXCEPT ![s] = IF Orphan(s) THEN "none" ELSE @]
    /\ recvText' = [recvText EXCEPT ![s] = IF Orphan(s) THEN EmptyText ELSE @]
    /\ nPartials' = [nPartials EXCEPT ![s] = IF Orphan(s) THEN 0 ELSE @]
    /\ UNCHANGED <<mainVars, chanVars, audioVars, stop, ovVars, batchLog, batchErr, pasteLog, pasteErr,
                   ovLog, taken, relShort>>
    /\ UNCHANGED unitVars

\* `timeout(10 s, recv_task).await`: Err(Elapsed) => String::new(); recv_task
\* keeps running
TaskRecvTimeout(s) ==
    /\ Alive
    /\ taskPc[s] = "await_recv"
    /\ recvPc[s] = "running"
    /\ TaskReturns(s, OkText(EmptyText))
    /\ UNCHANGED <<mainVars, chanVars, audioVars, stop, recvPc, recvText, nPartials,
                   ovVars, batchLog, batchErr, pasteLog, pasteErr, ovLog, taken, relShort>>
    /\ UNCHANGED unitVars

\* ---- main.rs: recv_task ----

\* Some("partial") with a text: `overlay_tx_clone.send(UpdateText(t))`
\* (without effect once the overlay thread of the session has gone)
RecvPartial(s) ==
    /\ Alive
    /\ recvPc[s] = "running"
    /\ nPartials[s] < MaxPartials
    /\ ovSess = s
    /\ ovPc = "running"
    /\ \E t \in PartialTexts : ovQueue' = ChannelSend(s, UpdateText(t))
    /\ nPartials' = [nPartials EXCEPT ![s] = @ + 1]
    /\ UNCHANGED <<mainVars, chanVars, audioVars, stop, taskPc, last_sent, taskResult,
                   recvPc, recvText, ovSess, ovPc, ovPhase, ovText, histVars>>
    /\ UNCHANGED unitVars

\* the text of a final kept without leaving the read loop
RecvFinalNoBreak(s) ==
    /\ Alive
    /\ recvPc[s] = "running"
    /\ \E t \in WireTexts : recvText' = [recvText EXCEPT ![s] = t]
    /\ UNCHANGED <<mainVars, chanVars, audioVars, stop, taskPc, last_sent, taskResult,
                   recvPc, nPartials, ovVars, histVars>>
    /\ UNCHANGED unitVars

\* Some("final"): `final_text = t` when a text is present, `break`
RecvFinal(s) ==
    /\ Alive
    /\ recvPc[s] = "running"
    /\ \E t \in WireTexts : RecvReturns(s, t)
    /\ UNCHANGED <<mainVars, chanVars, audioVars, stop, taskPc, last_sent, taskResult,
                   ovVars, histVars>>
    /\ UNCHANGED unitVars

\* a "final" without text, a read error (`break`) or the end of the stream
\* (`read.next()` gives None): final_text is still String::new()
RecvClosed(s) ==
    /\ Alive
    /\ recvPc[s] = "running"
    /\ RecvReturns(s, recvText[s])
    /\ UNCHANGED <<mainVars, chanVars, audioVars, stop, taskPc, last_sent, taskResult,
                   ovVars, histVars>>
    /\ UNCHANGED unitVars

\* ---- overlay.rs: the overlay thread ----

\* UpdateText taken in the fly-out phase too
ApplyCommandAnyPhase(st, c) ==
    CASE c.cmd = "UpdateText" ->
            IF c.text # st[2] THEN <<st[1], c.text, st[3]>> ELSE st
      [] c.cmd = "Finish" -> <<"FlyOut", c.text, st[3]>>
      [] c.cmd = "Close" -> <<st[1], st[2], TRUE>>

\* OverlayState::poll_commands: one command applied to <<phase, text, done>>
ApplyCommand(st, c) ==
    CASE c.cmd = "UpdateText" ->
            IF st[1] = "Recording" /\ c.text # st[2] THEN <<st[1], c.text, st[3]>> ELSE st
      [] c.cmd = "Finish" -> <<"FlyOut", c.text, st[3]>>
      [] c.cmd = "Close" -> <<st[1], st[2], TRUE>>

RECURSIVE PollCommands(_, _)
\* `while let Ok(cmd) = self.rx.try_recv()`
PollCommands(st, q) ==
    IF q = <<>> THEN st ELSE PollCommands(ApplyCommand(st, Head(q)), Tail(q))

\* OverlayState::draw from a frame or configure event: poll_commands, then
\* draw_recording or draw_flyout; the thread leaves its loop once done is set
OverlayDraw ==
    /\ Alive
    /\ ovPc = "running"
    /\ LET st == PollCommands(<<ovPhase, ovText, FALSE>>, ovQueue) IN
          /\ ovQueue' = <<>>
          /\ \/ \* done by Close, by an empty fly-out text or by `t >= 1.0`:
                \* the loop ends and OverlayState is dropped
                /\ st[3] \/ st[1] = "FlyOut"
                /\ ovPc' = "exited"
                /\ ovPhase' = "Recording"
                /\ ovText' = EmptyText
             \/ \* the frame is drawn and the loop goes on
                /\ ~st[3]
                /\ st[1] = "FlyOut" => ~IsEmptyText(st[2])
                /\ ovPhase' = st[1]
                /\ ovText' = st[2]
                /\ UNCHANGED ovPc
    /\ UNCHANGED <<mainVars, chanVars, audioVars, taskVars, ovSess, histVars>>
    /\ UNCHANGED unitVars

\* run_overlay_thread returns early: no Wayland connection or global, an error
\* of blocking_dispatch, or LayerShellHandler::closed
OverlayAbort ==
    /\ Alive
    /\ ovPc = "running"
    /\ ovPc' = "exited"
    /\ ovQueue' = <<>>
    /\ ovPhase' = "Recording"
    /\ ovText' = EmptyText
    /\ UNCHANGED <<mainVars, chanVars, audioVars, taskVars, ovSess, histVars>>
    /\ UNCHANGED unitVars

Next ==
    \/ \E e \in {"Pressed", "Released"} : KeyEvent(e)
    \/ CallbackLoad
    \/ CallbackAppend
    \/ MainPress
    \/ MainStartArm
    \/ MainWaitRepeat
    \/ MainWaitRelease
    \/ MainStreamJoined
    \/ MainStreamTimeout
    \/ MainReleaseNoOverlay
    \/ MainStopStore
    \/ MainStopTake
    \/ MainResolveStream
    \/ MainFallback
    \/ MainFallbackClose
    \/ MainDeliver
    \/ MainJoinIdle
    \/ MainJoinPaste
    \/ MainTranscribe
    \/ MainIgnore
    \/ \E s \in Sessions :
          \/ TaskConnectFail(s)
          \/ TaskConnect(s)
          \/ SenderTick(s)
          \/ SenderFlush(s)
          \/ SenderDone(s)
          \/ TaskRecvJoined(s)
          \/ TaskRecvTimeout(s)
          \/ RecvPartial(s)
          \/ RecvFinal(s)
          \/ RecvClosed(s)
    \/ OverlayDraw
    \/ OverlayAbort

Spec == Init /\ [][Next]_vars

\* ---- scheduling ----

\* a step of the main task (the session loop)
MainStep ==
    \/ MainPress \/ MainStartArm \/ MainWaitRepeat \/ MainWaitRelease
    \/ MainStreamJoined \/ MainStreamTimeout \/ MainReleaseNoOverlay
    \/ MainStopStore \/ MainStopTake \/ MainResolveStream \/ MainFallback
    \/ MainFallbackClose \/ MainDeliver \/ MainJoinIdle \/ MainJoinPaste
    \/ MainTranscribe \/ MainIgnore

\* a step of the streaming task of session s that needs nothing but the
\* runtime and its timers: a tick of the interval, the sends, the join of
\* recv_task or the end of the 10 s
TaskStep(s) ==
    \/ SenderTick(s) \/ SenderFlush(s) \/ SenderDone(s)
    \/ TaskRecvJoined(s) \/ TaskRecvTimeout(s)

\* The tokio runtime runs every task that is ready, timers fire, and the audio
\* thread finishes a callback it has begun. Nothing is assumed of the user
\* (key events), the device (new frames), the network (connection, messages)
\* or the compositor (the events that make the overlay thread draw).
FairSpec ==
    /\ Spec
    /\ WF_vars(MainStep)
    /\ \A s \in Sessions : WF_vars(TaskStep(s))
    /\ WF_vars(CallbackAppend)

\* ---- the last session of a run ----

\* key events the listeners still produce
LastEvents == 2

\* main in Idle at the event loop after spurious Release events, all ignored,
\* with LastEvents key events still to come: one Press and its Release
LastSessionInit ==
    /\ NoSession
    /\ pc = "recv"
    /\ nEvents = MaxEvents - LastEvents
    /\ enc = EncIdle
    /\ rcv = RecvIdle
    /\ health = HealthUnknown
    /\ lk = LockIdle
    /\ ovs = OverlayIdle

LastSessionSpec ==
    /\ LastSessionInit
    /\ [][Next]_vars
    /\ WF_vars(MainStep)
    /\ \A s \in Sessions : WF_vars(TaskStep(s))
    /\ WF_vars(CallbackAppend)


\* ---- main.rs: the setup before the session loop ----

StartInit ==
    /\ NoSession
    /\ pc = "check_wtype"
    /\ nEvents = 0
    /\ enc = EncIdle
    /\ rcv = RecvIdle
    /\ health = HealthUnknown
    /\ lk = LockIdle
    /\ ovs = OverlayIdle

\* a setup step of main done: `?` returns its error from main
StartStep(from, to) ==
    /\ pc = from
    /\ pc' \in {to, "exited"}

\* `paste::check_wtype()?`
StartCheckWtype ==
    /\ StartStep("check_wtype", "new_transcriber")
    /\ UNCHANGED <<no_overlay, state, sess, samples, stream_result, final_text,
                   audioVars, chanVars, taskVars, ovVars, histVars, unitVars>>

\* the health check taken as a preflight check
StartTranscriberFatal ==
    /\ pc = "new_transcriber"
    /\ \/ health' = "ok" /\ pc' = "new_audio"
       \/ health' = "err" /\ pc' = "exited"
    /\ UNCHANGED <<no_overlay, state, sess, samples, stream_result, final_text,
                   audioVars, chanVars, taskVars, ovVars, histVars, enc, rcv, lk, ovs>>

\* `Arc::new(Transcriber::new(args.server))`: `ureq::get(health_url).call()`
\* gives Ok or Err, either is logged and `Self { server_url }` is returned
StartTranscriber ==
    /\ pc = "new_transcriber"
    /\ health' \in {"ok", "err"}
    /\ pc' = "new_audio"
    /\ UNCHANGED <<no_overlay, state, sess, samples, stream_result, final_text,
                   audioVars, chanVars, taskVars, ovVars, histVars, enc, rcv, lk, ovs>>

\* `audio::AudioCapture::new()?`
StartAudio ==
    /\ StartStep("new_audio", "spawn_listener")
    /\ UNCHANGED <<no_overlay, state, sess, samples, stream_result, final_text,
                   audioVars, chanVars, taskVars, ovVars, histVars, unitVars>>

\* `input::spawn_listener(tx)?`, `let mut state = State::Idle`
StartListener ==
    /\ StartStep("spawn_listener", "recv")
    /\ UNCHANGED <<no_overlay, state, sess, samples, stream_result, final_text,
                   audioVars, chanVars, taskVars, ovVars, histVars, unitVars>>

StartNext ==
    \/ StartCheckWtype
    \/ StartTranscriber
    \/ StartAudio
    \/ StartListener
    \/ Next

StartSpec == StartInit /\ [][StartNext]_vars

\* ---- the two 16-bit encoders ----

\* A sample is an integer k standing for the f32 value k / SampleScale; with
\* SampleScale a power of two and |k * 32767| below 2^24 the f32 product is
\* exact.
SampleScale == 256
\* samples are taken from [-SampleMax, SampleMax]
SampleMax == 2

SampleInputs == (0 - SampleMax * SampleScale)..(SampleMax * SampleScale)

\* `as i16` on a value x / SampleScale within range: truncation toward zero
AsI16(x) == IF x >= 0 THEN x \div SampleScale ELSE 0 - ((0 - x) \div SampleScale)

\* f32::clamp(-32768.0, 32767.0) on a value x / SampleScale
ClampF32(x) ==
    IF x < (0 - 32768) * SampleScale THEN (0 - 32768) * SampleScale
    ELSE IF x > 32767 * SampleScale THEN 32767 * SampleScale
    ELSE x

\* i16::to_le_bytes: two's complement, low byte first
ToLeBytes(i) ==
    LET u == IF i >= 0 THEN i ELSE i + 65536
    IN  <<u % 256, u \div 256>>

\* main.rs: `(s * 32767.0).clamp(-32768.0, 32767.0) as i16`
StreamSample(k) == AsI16(ClampF32(k * 32767))

RECURSIVE samples_to_s16le(_)
\* main.rs: samples_to_s16le
samples_to_s16le(ss) ==
    IF ss = <<>> THEN <<>>
    ELSE ToLeBytes(StreamSample(Head(ss))) \o samples_to_s16le(Tail(ss))

\* the factor taken as 32768
WavSampleFullScale(k) == AsI16(ClampF32(k * 32768))

\* audio.rs, write_wav: `(sample * 32767.0).clamp(-32768.0, 32767.0) as i16`
WavSample(k) == AsI16(ClampF32(k * 32767))

\* the values write_wav hands to writer.write_sample
write_wav(ss) == [i \in DOMAIN ss |-> WavSample(ss[i])]

EncInit ==
    /\ SessionInit
    /\ ~no_overlay
    /\ \E k \in SampleInputs : enc = [sample |-> k, s16le |-> <<>>, wav |-> <<>>]
    /\ rcv = RecvIdle
    /\ health = HealthUnknown
    /\ lk = LockIdle
    /\ ovs = OverlayIdle

EncodeStream ==
    /\ enc.s16le = <<>>
    /\ enc' = [enc EXCEPT !.s16le = samples_to_s16le(<<enc.sample>>)]
    /\ UNCHANGED <<mainVars, audioVars, chanVars, taskVars, ovVars, histVars, rcv, health, lk, ovs>>

EncodeBatch ==
    /\ enc.wav = <<>>
    /\ enc' = [enc EXCEPT !.wav = write_wav(<<enc.sample>>)]
    /\ UNCHANGED <<mainVars, audioVars, chanVars, taskVars, ovVars, histVars, rcv, health, lk, ovs>>

EncNext == EncodeStream \/ EncodeBatch

EncSpec == EncInit /\ [][EncNext]_vars

\* ---- recv_task on a stream of messages ----

\* messages the server side delivers to one recv_task
MaxMsgs == 4

\* values of the "text" field
RxTexts == {EmptyText, <<"a">>}

\* An item of `read.next()`: a text frame holding JSON with a "type" (and a
\* "text" when `text` is a one-element sequence), a text frame that is not
\* JSON, a frame that is not a text frame, a read error, or the end of the
\* stream.
JsonMsg(ty, txt) == [frame |-> "text", json |-> TRUE, type |-> ty, text |-> txt]
NotJson == [frame |-> "text", json |-> FALSE, type |-> "", text |-> <<>>]
BinaryFrame == [frame |-> "binary", json |-> FALSE, type |-> "", text |-> <<>>]
ReadError == [frame |-> "error", json |-> FALSE, type |-> "", text |-> <<>>]
StreamEnd == [frame |-> "end", json |-> FALSE, type |-> "", text |-> <<>>]

WireMessages ==
    {JsonMsg(ty, <<t>>) : ty \in {"partial", "final"}, t \in RxTexts}
    \cup {JsonMsg(ty, <<>>) : ty \in {"partial", "final", "done", "status"}}
    \cup {NotJson, BinaryFrame, ReadError, StreamEnd}

SeqsUpTo(S, n) == UNION {[1..k -> S] : k \in 0..n}

\* an unknown type ends the loop
RecvOnMessageStrict(st, m) ==
    IF m.frame \in {"error", "end"} THEN [st EXCEPT !.ended = TRUE]
    ELSE IF m.frame # "text" THEN st
    ELSE IF ~m.json THEN st
    ELSE CASE m.type = "partial" ->
                 IF m.text # <<>>
                 THEN [st EXCEPT !.fwd = Append(@, UpdateText(m.text[1]))]
                 ELSE st
           [] m.type = "final" ->
                 [st EXCEPT !.final_text = IF m.text # <<>> THEN m.text[1] ELSE @,
                            !.ended = TRUE]
           [] OTHER -> [st EXCEPT !.ended = TRUE]

\* the loop goes on after a final message
RecvOnMessageNoBreak(st, m) ==
    IF m.frame \in {"error", "end"} THEN [st EXCEPT !.ended = TRUE]
    ELSE IF m.frame # "text" THEN st
    ELSE IF ~m.json THEN st
    ELSE CASE m.type = "partial" ->
                 IF m.text # <<>>
                 THEN [st EXCEPT !.fwd = Append(@, UpdateText(m.text[1]))]
                 ELSE st
           [] m.type = "final" ->
                 [st EXCEPT !.final_text = IF m.text # <<>> THEN m.text[1] ELSE @]
           [] OTHER -> st

\* recv_task: the body of `while let Some(msg) = read.next().await` applied to
\* the item m; `ended` stands for having left the loop
RecvOnMessage(st, m) ==
    IF m.frame \in {"error", "end"} THEN [st EXCEPT !.ended = TRUE]
    ELSE IF m.frame # "text" THEN st
    ELSE IF ~m.json THEN st
    ELSE CASE m.type = "partial" ->
                 IF m.text # <<>>
                 THEN [st EXCEPT !.fwd = Append(@, UpdateText(m.text[1]))]
                 ELSE st
           [] m.type = "final" ->
                 [st EXCEPT !.final_text = IF m.text # <<>> THEN m.text[1] ELSE @,
                            !.ended = TRUE]
           [] OTHER -> st

\* a recv_task just spawned, with the items its stream will deliver
RecvInit ==
    /\ SessionInit
    /\ ~no_overlay
    /\ enc = EncIdle
    /\ health = HealthUnknown
    /\ lk = LockIdle
    /\ ovs = OverlayIdle
    /\ \E q \in SeqsUpTo(WireMessages, MaxMsgs) :
          rcv = [RecvIdle EXCEPT !.inbox = q]

\* one turn of the loop: `read.next().await` gives the next item
RecvRead ==
    /\ ~rcv.ended
    /\ rcv.inbox # <<>>
    /\ LET m == Head(rcv.inbox) IN
          rcv' = RecvOnMessage([rcv EXCEPT !.inbox = Tail(@), !.read = Append(@, m)], m)
    /\ UNCHANGED <<mainVars, audioVars, chanVars, taskVars, ovVars, histVars, enc, health, lk, ovs>>

RecvNext == RecvRead

RecvSpec == RecvInit /\ [][RecvNext]_vars

\* ---- audio.rs: the buffer mutex ----

\* buffer operations each thread performs
MaxOps == 2

\* Every operation on the buffer is one statement of the form
\* `buffer.lock()...`: the thread calls lock() ("wait"), gets the guard
\* ("held"), does its operation, and the guard is dropped at the end of the
\* statement ("idle").
LockInit ==
    /\ SessionInit
    /\ ~no_overlay
    /\ enc = EncIdle
    /\ rcv = RecvIdle
    /\ health = HealthUnknown
    /\ lk = LockIdle
    /\ ovs = OverlayIdle

\* length of the buffer after the operation of thread t: extend_from_slice by
\* the callback, clone by snapshot, clear by start_recording and mem::take by
\* stop_recording
BufferOp(t, len) ==
    CASE t = "callback" -> len + 1
      [] t = "sender" -> len
      [] t = "main" -> 0

\* `buf_clone.lock()` / `self.buffer.lock()` is called
LockCall(t) ==
    /\ lk.pcs[t] = "idle"
    /\ lk.ops[t] < MaxOps
    /\ lk' = [lk EXCEPT !.pcs[t] = "wait"]
    /\ UNCHANGED <<mainVars, audioVars, chanVars, taskVars, ovVars, histVars, enc, rcv, health, ovs>>

\* lock() returns the guard
LockAcquire(t) ==
    /\ lk.pcs[t] = "wait"
    /\ lk.holder = "free"
    /\ lk' = [lk EXCEPT !.pcs[t] = "held", !.holder = t]
    /\ UNCHANGED <<mainVars, audioVars, chanVars, taskVars, ovVars, histVars, enc, rcv, health, ovs>>

\* the guard kept after the operation
LockOpDoneKeepsGuard(t) ==
    /\ lk.pcs[t] = "held"
    /\ lk' = [lk EXCEPT !.pcs[t] = "idle", !.ops[t] = @ + 1, !.len = BufferOp(t, @)]
    /\ UNCHANGED <<mainVars, audioVars, chanVars, taskVars, ovVars, histVars, enc, rcv, health, ovs>>

\* the operation is done and the guard dropped at the end of the statement
LockOpDone(t) ==
    /\ lk.pcs[t] = "held"
    /\ lk' = [lk EXCEPT !.pcs[t] = "idle", !.holder = "free", !.ops[t] = @ + 1,
                        !.len = BufferOp(t, @)]
    /\ UNCHANGED <<mainVars, audioVars, chanVars, taskVars, ovVars, histVars, enc, rcv, health, ovs>>

\* the steps of thread t once it has called lock()
LockStep(t) == LockAcquire(t) \/ LockOpDone(t)

LockNext == \E t \in Threads : LockCall(t) \/ LockAcquire(t) \/ LockOpDone(t)

\* every thread is scheduled
LockSpec ==
    /\ LockInit
    /\ [][LockNext]_vars
    /\ \A t \in Threads : WF_vars(LockStep(t))

\* ---- overlay.rs: poll_commands on a run of commands ----

\* commands in the channel of one overlay thread
MaxCmds == 3

\* commands main and recv_task can send
OverlayCommands ==
    {UpdateText(t) : t \in {<<"a">>, <<" ">>}}
        \cup {Finish(t) : t \in {<<"a">>, EmptyText}}
        \cup {Close}

PollInit ==
    /\ SessionInit
    /\ ~no_overlay
    /\ enc = EncIdle
    /\ rcv = RecvIdle
    /\ health = HealthUnknown
    /\ lk = LockIdle
    /\ \E q \in SeqsUpTo(OverlayCommands, MaxCmds) :
          ovs = [OverlayIdle EXCEPT !.queue = q]

\* one turn of `while let Ok(cmd) = self.rx.try_recv() { match cmd { .. } }`
PollCommand ==
    /\ ovs.queue # <<>>
    /\ LET c == Head(ovs.queue)
           st == ApplyCommand(<<ovs.phase, ovs.text, ovs.done>>, c)
       IN  ovs' = [queue |-> Tail(ovs.queue), applied |-> Append(ovs.applied, c),
                   phase |-> st[1], text |-> st[2], done |-> st[3]]
    /\ UNCHANGED <<mainVars, audioVars, chanVars, taskVars, ovVars, histVars, enc, rcv,
                   health, lk>>

PollNext == PollCommand

PollSpec == PollInit /\ [][PollNext]_vars

\* ---- properties ----

\* stop_recording has returned in the current session
Stopped == taken # NotTaken

\* the samples returned by stop_recording last less than 0.3 s
ShortAtStop == Stopped /\ Len(taken) * FrameSamples * 10 < 3 * WHISPER_SAMPLE_RATE
LongAtStop == Stopped /\ Len(taken) * FrameSamples * 10 >= 3 * WHISPER_SAMPLE_RATE

\* main has sent no Finish to the overlay in the current session
NoFinish == \A i \in DOMAIN ovLog : ovLog[i].cmd # "Finish"

\* the current session is over and main waits for the next event
SessionOver == Stopped /\ pc = "recv" /\ state = "Idle"

\* main is past the choice between the streaming text and the fallback
Resolved == pc \in {"deliver", "fb_sleep", "join_idle", "join_paste", "recv"}

C2_ShortPressDiscarded ==
    (~no_overlay /\ relShort) =>
        /\ Stopped => ShortAtStop
        /\ batchLog = <<>>
        /\ pasteLog = <<>>
        /\ NoFinish

\* C3: paste_text is called at most once per session and only with a
\* non-empty text; when the resolved final text is empty it is not called.
C3_PasteOnceNonEmpty ==
    /\ Len(pasteLog) <= 1
    /\ \A i \in DOMAIN pasteLog : pasteLog[i] # <<>>
    /\ (Resolved /\ final_text = <<>>) => pasteLog = <<>>

\* a session that went through the batch fallback has ended with its final
\* text pasted once
C3_Witness ==
    /\ SessionOver
    /\ Len(pasteLog) = 1
    /\ pasteLog[1] = final_text
    /\ batchLog # <<>>

\* C4: a finished session of at least 0.3 s whose streaming task returned a
\* non-empty text in time has delivered exactly that text, once (one Finish,
\* one paste), and made no batch upload; a session that made a batch upload
\* had no usable streaming text.
C4_StreamingTextDelivered ==
    /\ (SessionOver /\ LongAtStop /\ stream_result.kind = "ok" /\ stream_result.text # <<>>)
          => /\ pasteLog = <<stream_result.text>>
             /\ ovLog = <<Finish(stream_result.text)>>
             /\ batchLog = <<>>
    /\ batchLog # <<>> => ~(stream_result.kind = "ok" /\ stream_result.text # <<>>)

\* a session of 0.3 s has delivered the streaming text
C4_Witness ==
    /\ SessionOver
    /\ LongAtStop
    /\ stream_result = OkText(<<"a">>)
    /\ pasteLog = <<<<"a">>>>

\* C5: in a session of at least 0.3 s whose streaming result is unusable
\* (timed out, failed, empty), once main is past the fallback the batch
\* transcription has been requested exactly once, on exactly the samples
\* stop_recording returned; it is never requested twice nor on other samples.
C5_FallbackOnceOnStopSamples ==
    /\ Len(batchLog) <= 1
    /\ batchLog # <<>> => Stopped /\ batchLog = <<taken>>
    /\ (~no_overlay /\ LongAtStop /\ Resolved
        /\ ~(stream_result.kind = "ok" /\ stream_result.text # <<>>))
          => batchLog = <<taken>>

\* the streaming task timed out and the fallback ran on the 0.3 s captured
C5_Witness ==
    /\ SessionOver
    /\ stream_result = TimedOut
    /\ Len(taken) = 2
    /\ batchLog = <<taken>>

C7_ReleaseEndsInIdle ==
    (Stopped /\ pc \in {"recv", "exited"}) =>
        pc = "recv" /\ state = "Idle" /\ ~recording

\* an event is taken from the channel where the transition table ignores it
IgnoredEvent ==
    /\ events # <<>>
    /\ events' = Tail(events)
    /\ \/ Head(events) = "Pressed" /\ (pc = "wait_release" \/ (pc = "recv" /\ state = "Recording"))
       \/ Head(events) = "Released" /\ pc = "recv" /\ state = "Idle"

\* C8: a Pressed taken while recording and a Released taken while idle change
\* nothing but the channel: session state, armed flag, buffer, stop flags,
\* streaming tasks, overlay and the logs of requests, commands and pastes.
C8_IgnoredEventsChangeNothing ==
    [][IgnoredEvent => UNCHANGED <<mainVars, audioVars, taskVars, ovVars, histVars>>]_vars

\* a repeated Pressed has been taken during a recording that holds samples
C8_Witness ==
    /\ pc = "wait_release"
    /\ sess = 1
    /\ nEvents = 3
    /\ events = <<>>
    /\ buffer # <<>>

\* C9: the buffer only holds frames the device delivered during the current
\* session.
C9_OneSessionInBuffer ==
    \A i \in DOMAIN buffer : buffer[i][1] = sess

\* C10: the buffer only grows while the armed flag is true.
C10_AppendOnlyWhileArmed ==
    [][Len(buffer') > Len(buffer) => recording]_vars

\* C11: stop_recording clears the armed flag before it takes the buffer, and
\* once it has returned the buffer stays empty until the next start_recording.
C11_StopLeavesBufferEmpty ==
    /\ pc = "stop_take" => ~recording
    /\ Stopped => buffer = <<>>

\* a is an initial segment of b
IsPrefix(a, b) == Len(a) <= Len(b) /\ a = SubSeq(b, 1, Len(a))

\* the sender of session s takes a snapshot in this step (a tick of its loop)
SenderSnapshotStep(s) ==
    /\ taskPc[s] = "tick"
    /\ taskPc'[s] # "tick" \/ sent'[s] # sent[s] \/ last_sent'[s] # last_sent[s]

\* C12: a snapshot leaves the buffer and the armed flag as they are and gives
\* the contents of the buffer at the time of the call (what the sender sends
\* is the part of it past its cursor); with the callback appending around the
\* snapshots, what has been sent during a recording is an initial segment of
\* the buffer, nothing lost and nothing twice.
C12_SnapshotIsPureCopy ==
    [][/\ \A s \in Sessions :
             SenderSnapshotStep(s) =>
                 /\ buffer' = buffer
                 /\ recording' = recording
                 /\ sent'[s] = sent[s] \o SliceFrom(buffer, last_sent[s])
       /\ (sess' > 0 /\ taken' = NotTaken /\ ~no_overlay) =>
              IsPrefix(sent'[sess'], buffer')]_vars

\* the sender has sent the first frame and the callback has appended a second
\* one while the recording goes on
C12_Witness ==
    /\ pc = "wait_release"
    /\ recording
    /\ taskPc[sess] = "tick"
    /\ Len(sent[sess]) = 1
    /\ last_sent[sess] = 1
    /\ Len(buffer) = 2

\* the streaming task of session s is running before and after this step
TaskRuns(s) == taskPc[s] # "none" /\ taskPc'[s] # "none"

\* C13: the cursor of a streaming task starts at zero and never decreases
\* while the task runs; every binary frame starts at the cursor and is not
\* empty, and in the sender loop the frames sent so far cover exactly the
\* samples below the cursor, so the ranges sent are increasing and disjoint.
C13_CursorMonotone ==
    [][\A s \in Sessions :
          /\ taskPc'[s] \in {"none", "connecting"} => last_sent'[s] = 0
          /\ taskPc'[s] = "tick" => Len(sent'[s]) = last_sent'[s]
          /\ TaskRuns(s) => last_sent'[s] >= last_sent[s]
          /\ (SenderSnapshotStep(s) /\ sent'[s] # sent[s]) =>
                 /\ Len(sent[s]) = last_sent[s]
                 /\ Len(sent'[s]) > Len(sent[s])]_vars

\* a sender has sent two frames and its cursor stands behind them
C13_Witness ==
    /\ pc = "wait_release"
    /\ taskPc[sess] = "tick"
    /\ last_sent[sess] = 2
    /\ Len(sent[sess]) = 2
    /\ sent[sess] = buffer

\* C14: when the sender of a session sends the done marker, the frames it has
\* sent so far are the whole contents of the buffer at that moment.
C14_DoneAfterWholeBuffer ==
    [][\A s \in Sessions :
          (taskPc[s] = "send_done" /\ doneSent'[s] = doneSent[s] + 1 /\ s = sess
           /\ taken = NotTaken)
              => sent[s] = buffer]_vars

\* the results of the streaming pipeline that the claim calls a failure
PipelineFailed(r) == r = TimedOut \/ r = Failed \/ r = OkText(EmptyText)

\* C15: a recv_task that has read no final text holds the empty text; a
\* streaming task that gives up on its receiver after 10 s returns the empty
\* text, one that joins it returns the receiver's text; a streaming task that
\* main gives up on after 15 s counts as timed out; and in a session of at
\* least 0.3 s a timed out, failed or empty pipeline result is not the
\* transcript: the batch fallback runs on the samples and the text to deliver
\* is a (trimmed) batch answer.
C15_PipelineFailureFallsBack ==
    [][/\ \A s \in Sessions :
             /\ recvPc'[s] = "running" => recvText'[s] = EmptyText
             /\ (taskPc[s] = "await_recv" /\ taskPc'[s] = "finished") =>
                    taskResult'[s] = IF recvPc[s] = "ended"
                                     THEN OkText(recvText[s])
                                     ELSE OkText(EmptyText)
       /\ (pc = "await_stream" /\ pc' = "stop_store" /\ taskPc[sess] # "finished") =>
              stream_result' = TimedOut
       /\ (~no_overlay /\ LongAtStop' /\ Resolved' /\ PipelineFailed(stream_result')) =>
              /\ batchLog' = <<taken'>>
              /\ pc' = "deliver" => \E body \in Bodies : final_text' = Trim(body)]_vars

\* the receiver ended without a text (closed connection, read error or empty
\* final), the fallback ran on the 0.3 s captured and its text was delivered
C15_Witness ==
    /\ SessionOver
    /\ stream_result = OkText(EmptyText)
    /\ Len(taken) = 2
    /\ batchLog = <<taken>>
    /\ pasteLog = <<<<"a">>>>

\* C16: after a failed, timed out or empty streaming result the session loop
\* does not terminate: main never returns while it handles the session.
C16_SessionLoopGoesOn ==
    (~no_overlay /\ Stopped /\ PipelineFailed(stream_result)) => pc # "exited"

\* C17: main does not block on the overlay: once it has sent Close or Finish
\* and waits in join, the join returns and main is back at the head of the
\* session loop, whether or not the overlay thread gets to process the
\* command.
C17_JoinReturns ==
    (pc \in {"join_idle", "join_paste"}) ~> (pc = "recv")

\* the 16-bit value the claim states for the sample k / SampleScale:
\* trunc(sample * 32767), then clamped to [-32768, 32767]
ClaimedS16(k) ==
    LET p == k * 32767
        t == IF p >= 0 THEN p \div SampleScale ELSE 0 - ((0 - p) \div SampleScale)
    IN  IF t < 0 - 32768 THEN 0 - 32768 ELSE IF t > 32767 THEN 32767 ELSE t

\* the signed value of two bytes read low byte first
FromLeBytes(b) ==
    LET u == b[1] + 256 * b[2] IN IF u >= 32768 THEN u - 65536 ELSE u

\* C18: for every sample the streaming encoder and the batch encoder give the
\* same 16-bit value, trunc(sample * 32767) clamped to [-32768, 32767]; 1.0
\* gives 32767, -1.5 gives -32768, 0.0 gives 0; the streaming encoder emits
\* two bytes per sample, each in 0..255, low byte first.
C18_EncodersAgree ==
    (enc.s16le # <<>> /\ enc.wav # <<>>) =>
        /\ Len(enc.s16le) = 2
        /\ enc.s16le[1] \in 0..255 /\ enc.s16le[2] \in 0..255
        /\ enc.s16le[1] = enc.wav[1] % 256
        /\ FromLeBytes(enc.s16le) = enc.wav[1]
        /\ enc.wav[1] = ClaimedS16(enc.sample)
        /\ enc.sample = SampleScale => enc.wav[1] = 32767
        /\ 2 * enc.sample = 0 - 3 * SampleScale => enc.wav[1] = 0 - 32768
        /\ enc.sample = 0 => enc.wav[1] = 0

\* the out-of-range sample -1.5 has gone through both encoders
C18_Witness ==
    /\ 2 * enc.sample = 0 - 3 * SampleScale
    /\ enc.s16le = <<0, 128>>
    /\ enc.wav = <<0 - 32768>>

\* C19: Transcriber::transcribe is called at most once per session; once a
\* call has returned Err the session holds exactly that one request, no text,
\* no paste and no Finish, the state is Idle, and in overlay mode the session
\* ends on the notice followed by Close.
C19_BatchFailureNotRetried ==
    /\ Len(batchLog) <= 1
    /\ batchErr =>
          /\ batchLog = <<taken>>
          /\ final_text = EmptyText
          /\ pasteLog = <<>>
          /\ NoFinish
          /\ state = "Idle"
          /\ pc \in {"fb_sleep", "join_idle", "recv"}
          /\ (SessionOver /\ ~no_overlay) => ovLog = <<UpdateText(UnreachableText), Close>>

\* the fallback request of an overlay session failed and the session is over
C19_Witness ==
    /\ SessionOver
    /\ batchErr
    /\ ~no_overlay
    /\ ovLog = <<UpdateText(UnreachableText), Close>>
    /\ pasteLog = <<>>

\* what a session looks like once paste_text has returned Err
AfterPasteFailure ==
    /\ state = "Idle"
    /\ pc = "recv"
    /\ final_text # EmptyText
    /\ pasteLog = <<final_text>>
    /\ Len(batchLog) <= 1
    /\ ~no_overlay => ovLog = <<Finish(final_text)>>
    /\ no_overlay => batchLog = <<taken>> /\ ~batchErr

\* C20: once paste_text has returned Err the session is over with the state
\* Idle and main back at the event loop; from then on, until the next Press,
\* the text obtained, the Finish sent, the single paste call and the batch
\* requests of the session stay as they are.
C20_PasteFailureEndsSession ==
    [][/\ pasteErr' => AfterPasteFailure'
       /\ (pasteErr /\ pasteErr') =>
             UNCHANGED <<state, pc, final_text, ovLog, pasteLog, batchLog>>]_vars

\* paste_text failed on the text of the batch fallback, after the Finish
C20_Witness ==
    /\ SessionOver
    /\ pasteErr
    /\ ~no_overlay
    /\ batchLog = <<taken>>
    /\ ovLog = <<Finish(final_text)>>
    /\ pasteLog = <<final_text>>
    /\ events # <<>>

\* a text frame with JSON of type "partial" that has a "text"
IsPartialWithText(m) == m.frame = "text" /\ m.json /\ m.type = "partial" /\ m.text # <<>>

\* a text frame with JSON of type "final"
IsFinal(m) == m.frame = "text" /\ m.json /\ m.type = "final"

\* the UpdateText commands due for the items of `log`, in their order
UpdatesFor(log) ==
    LET p == SelectSeq(log, IsPartialWithText)
    IN  [i \in DOMAIN p |-> UpdateText(p[i].text[1])]

\* C21: the commands recv_task has sent to the overlay are exactly one
\* UpdateText per partial with text it has read, in the order read; a final
\* message is the last item read: it ends the loop with its text as the
\* result, and no later item is read or forwarded.
C21_PartialsForwardedInOrder ==
    /\ rcv.fwd = UpdatesFor(rcv.read)
    /\ \A i \in DOMAIN rcv.read :
          IsFinal(rcv.read[i]) =>
             /\ i = Len(rcv.read)
             /\ rcv.ended
             /\ rcv.final_text = IF rcv.read[i].text # <<>> THEN rcv.read[i].text[1]
                                 ELSE EmptyText
    /\ ~rcv.ended => rcv.final_text = EmptyText

\* two partials with different texts were forwarded in their order, the final
\* message ended the loop and the partial behind it was left unread
C21_Witness ==
    /\ rcv.read = <<JsonMsg("partial", <<EmptyText>>), JsonMsg("partial", <<<<"a">>>>),
                    JsonMsg("final", <<<<"a">>>>)>>
    /\ rcv.inbox = <<JsonMsg("partial", <<<<"a">>>>)>>
    /\ rcv.fwd = <<UpdateText(EmptyText), UpdateText(<<"a">>)>>
    /\ rcv.ended
    /\ rcv.final_text = <<"a">>

\* C22: Transcriber::new always returns, with the health check answered or
\* failed, and main goes on to the rest of the setup; nothing later in the
\* program depends on the outcome.
C22_HealthCheckNotFatal ==
    [][/\ pc = "new_transcriber" => pc' = "new_audio" /\ health' \in {"ok", "err"}
       /\ pc' = "exited" => pc \in {"check_wtype", "new_audio", "spawn_listener",
                                    "resolve", "transcribe", "exited"}]_vars

\* the health check failed at startup; the first session has then connected
\* to the service and streamed 0.3 s of audio to it
C22_Witness ==
    /\ health = "err"
    /\ sess = 1
    /\ pc = "wait_release"
    /\ wsOpen[1]
    /\ Len(sent[1]) = 2

\* the sender loop of session s has seen the stop flag and taken its last
\* snapshot
FinalSnapshotTaken(s) == taskPc[s] = "send_done" \/ doneSent[s] > 0

\* C23: in overlay mode, whenever stop_recording takes the buffer of a session
\* whose streaming connection has not failed, the sender loop of that session
\* has already observed the stop flag and taken its final snapshot.
C23_StopReadAfterFinalSnapshot ==
    [][(~no_overlay /\ taken = NotTaken /\ taken' # NotTaken /\ taskResult[sess] # Failed)
          => FinalSnapshotTaken(sess)]_vars

\* C24: a sender that sees the stop flag sends the unsent remainder of its
\* snapshot, if there is one, then the done marker, then leaves the loop; done
\* is sent at most once per streaming task, only after that remainder, and no
\* binary frame follows it.
C24_DoneOnceAfterRemainder ==
    [][\A s \in Sessions :
          /\ doneSent'[s] <= 1
          /\ (taskPc[s] = "tick" /\ taskPc'[s] = "send_done") =>
                /\ stop[s]
                /\ doneSent[s] = 0
                /\ sent'[s] = sent[s] \o SliceFrom(buffer, last_sent[s])
          /\ doneSent'[s] > doneSent[s] =>
                /\ taskPc[s] = "send_done"
                /\ taskPc'[s] \notin {"tick", "send_done"}
                /\ sent'[s] = sent[s]
          /\ (doneSent[s] > 0 /\ doneSent'[s] > 0) => sent'[s] = sent[s]]_vars

\* the stop flag was seen with one frame unsent: the frame went out, then done
C24_Witness ==
    /\ pc = "await_stream"
    /\ taskPc[sess] = "await_recv"
    /\ doneSent[sess] = 1
    /\ last_sent[sess] = 1
    /\ Len(sent[sess]) = 2
    /\ sent[sess] = buffer

\* one of the two waits of the session ran out: the 15 s of main for the
\* streaming task, or the wait of the task for recv_task (its result is then
\* the empty text, and recv_task is still running)
WaitExpired ==
    /\ ~no_overlay
    /\ pc = "stop_store"
    /\ \/ stream_result = TimedOut
       \/ /\ stream_result = OkText(EmptyText)
          /\ taskPc[sess] = "finished"
          /\ recvPc[sess] = "running"

\* C25: a session in which one of the two bounded waits ran out goes on and
\* ends with main back at the event loop in state Idle.
C25_ExpiredWaitEndsInIdle == WaitExpired ~> (pc = "recv" /\ state = "Idle")

\* main has set the stop flag of session s and waits for its streaming task,
\* whose sender loop is at its tick
StopSetInLoop(s) == pc = "await_stream" /\ sess = s /\ stop[s] /\ taskPc[s] = "tick"

\* the sender of session s has sent done and left its loop
SenderExited(s) == doneSent[s] = 1 /\ taskPc[s] \notin {"tick", "send_done"}

IsIgnored(m) ==
    \/ m.frame = "binary"
    \/ m.frame = "text" /\ ~m.json
    \/ m.frame = "text" /\ m.json /\ m.type \notin {"partial", "final"}

\* C27: when recv_task reads a message of another type (done included), a
\* text frame that is not JSON or a frame that is not a text frame, the loop
\* goes on, the captured final text stays as it is and nothing is sent to the
\* overlay.
C27_OtherMessagesIgnored ==
    [][(rcv'.read # rcv.read /\ IsIgnored(Head(rcv.inbox))) =>
          /\ ~rcv'.ended
          /\ rcv'.final_text = rcv.final_text
          /\ rcv'.fwd = rcv.fwd
          /\ rcv'.inbox = Tail(rcv.inbox)]_vars

\* a done message, a text frame without JSON, a binary frame and a message of
\* an unknown type have been read, and the loop is still running
C27_Witness ==
    /\ rcv.read = <<JsonMsg("done", <<>>), NotJson, BinaryFrame, JsonMsg("status", <<>>)>>
    /\ ~rcv.ended
    /\ rcv.final_text = EmptyText
    /\ rcv.fwd = <<>>

\* C28: every binary frame of the sender carries at least one sample: a step
\* of the ordinary branch of the loop (cursor advanced, or loop left on a
\* failed send) happens only with a snapshot longer than the cursor and adds
\* samples to what was sent; the stop branch sends a frame exactly when the
\* snapshot is longer than the cursor.
C28_NoEmptyFrame ==
    [][\A s \in Sessions :
          /\ (taskPc[s] = "tick" /\ ~stop[s]
              /\ (taskPc'[s] = "await_recv" \/ last_sent'[s] # last_sent[s]))
                => /\ Len(buffer) > last_sent[s]
                   /\ Len(sent'[s]) > Len(sent[s])
          /\ (taskPc[s] = "tick" /\ taskPc'[s] = "send_done")
                => (sent'[s] # sent[s] <=> Len(buffer) > last_sent[s])
          /\ (taskPc[s] = "tick" /\ sent'[s] # sent[s])
                => /\ Len(buffer) > last_sent[s]
                   /\ Len(sent'[s]) > Len(sent[s])]_vars

\* the sender has sent the only frame captured so far and is at its tick with
\* nothing new in the buffer
C28_Witness ==
    /\ pc = "wait_release"
    /\ recording
    /\ cbPc = "idle"
    /\ taskPc[sess] = "tick"
    /\ Len(buffer) = 1
    /\ last_sent[sess] = 1
    /\ sent[sess] = buffer

\* C29: the armed flag is written by main only, to true by the start_recording
\* of a new session and to false by the stop_recording of that session, each
\* once per session; the stop flag of a session is written by main only, from
\* false to true when the Release is handled, and stays true; a session that
\* is over has its capture disarmed and, in overlay mode, its stop flag set.
C29_FlagsGoOneWay ==
    [][/\ recording' # recording =>
             /\ pc' # pc
             /\ \/ pc = "start_arm" /\ ~recording /\ recording'
                \/ pc = "stop_store" /\ recording /\ ~recording'
       /\ (pc' = "start_arm" /\ pc # "start_arm") => (sess' = sess + 1 /\ ~recording)
       /\ (pc' = "stop_store" /\ pc # "stop_store") => (taken' = NotTaken /\ recording)
       /\ \A s \in Sessions :
             /\ stop[s] => stop'[s]
             /\ stop'[s] # stop[s] =>
                   /\ s = sess
                   /\ ~no_overlay
                   /\ pc = "wait_release"
                   /\ pc' = "await_stream"
       /\ SessionOver' => (~recording' /\ (~no_overlay => stop'[sess']))]_vars

\* the first session is over, disarmed and with its stop flag set for good;
\* the second has armed capture again and has a stop flag of its own, unset
C29_Witness ==
    /\ ~no_overlay
    /\ sess = 2
    /\ pc = "wait_release"
    /\ recording
    /\ stop[1]
    /\ ~stop[2]

\* thread t is blocked in lock()
LockWaiting(t) == lk.pcs[t] = "wait"

\* C30: the buffer lock is held by at most one thread, which is then inside
\* its one buffer operation; whenever a thread waits for the lock, the lock is
\* free or its holder can finish and drop it, so some step is possible; and
\* every thread that has called lock() gets through its operation.
C30_BufferLockNoDeadlock ==
    /\ [](/\ \A t \in Threads : lk.holder = t <=> lk.pcs[t] = "held"
          /\ lk.holder \in Threads \cup {"free"}
          /\ (\E t \in Threads : LockWaiting(t)) =>
                /\ lk.holder = "free" \/ ENABLED LockOpDone(lk.holder)
                /\ ENABLED LockNext)
    /\ \A t \in Threads : LockWaiting(t) ~> (lk.pcs[t] = "idle")

\* the callback holds the lock for its append while snapshot and
\* stop_recording both wait for it
C30_Witness ==
    /\ lk.holder = "callback"
    /\ lk.pcs["sender"] = "wait"
    /\ lk.pcs["main"] = "wait"
    /\ lk.ops["main"] = 1

\* a command that ends the overlay: Finish or Close
IsTerminal(c) == c.cmd \in {"Finish", "Close"}

\* C31: in an overlay session main sends at most one terminal command and
\* nothing after it; a Finish carries the non-empty final text, a Close is sent
\* only when the recording was too short, the fallback failed or the final text
\* is empty; a session that has ended has sent exactly one terminal command,
\* Finish when the final text is non-empty and Close otherwise.
C31_OneTerminalCommand ==
    ~no_overlay =>
        /\ \A i \in 1..(Len(ovLog) - 1) : ~IsTerminal(ovLog[i])
        /\ \A i \in DOMAIN ovLog :
              /\ ovLog[i].cmd = "Finish" =>
                    final_text # <<>> /\ ovLog[i] = Finish(final_text)
              /\ ovLog[i].cmd = "Close" =>
                    ShortAtStop \/ batchErr \/ (Resolved /\ final_text = <<>>)
        /\ SessionOver =>
              /\ ovLog # <<>>
              /\ IsTerminal(ovLog[Len(ovLog)])
              /\ ovLog[Len(ovLog)].cmd = "Finish" <=> final_text # <<>>

\* the fallback failed: the session ended with the notice followed by Close
C31_Witness ==
    /\ SessionOver
    /\ ~no_overlay
    /\ batchErr
    /\ ovLog = <<UpdateText(UnreachableText), Close>>

\* C32: with --no-overlay a Press arms capture and leaves main in Recording at
\* the event loop; no streaming task is spawned, no connection opened, no frame
\* sent, no overlay thread started and no overlay command sent; a session of
\* at least 0.3 s that has ended made exactly one batch request, on the samples
\* taken, and pasted its result once when that was non-empty, not at all
\* otherwise.
C32_NoOverlayBatchOnly ==
    no_overlay =>
        /\ (state = "Recording" /\ pc = "recv") => recording
        /\ pc # "wait_release"
        /\ \A s \in Sessions :
              /\ taskPc[s] = "none"
              /\ recvPc[s] = "none"
              /\ ~wsOpen[s]
              /\ sent[s] = <<>>
              /\ doneSent[s] = 0
        /\ ovPc = "none"
        /\ ovQueue = <<>>
        /\ ovLog = <<>>
        /\ Len(batchLog) <= 1
        /\ (SessionOver /\ LongAtStop) =>
              /\ batchLog = <<taken>>
              /\ pasteLog = IF ~batchErr /\ final_text # <<>>
                            THEN <<final_text>> ELSE <<>>

\* a --no-overlay session of 0.3 s has ended with its batch text pasted
C32_Witness ==
    /\ no_overlay
    /\ SessionOver
    /\ Len(taken) = 2
    /\ batchLog = <<taken>>
    /\ pasteLog = <<<<"a">>>>

\* the streaming task of session s, or its recv_task, has not returned
TaskLive(s) == taskPc[s] \notin {"none", "finished"} \/ recvPc[s] = "running"

\* C33: while main is in Idle at the event loop no streaming task and no
\* recv_task is running, and at no time are tasks of two sessions running.
C33_TaskEndsWithSession ==
    /\ (pc = "recv" /\ state = "Idle") => \A s \in Sessions : ~TaskLive(s)
    /\ \A s, t \in Sessions : (TaskLive(s) /\ TaskLive(t)) => s = t

\* C34: every sample the streaming task of session s has sent in a binary
\* frame was captured in session s.
C34_SentSamplesOfOwnSession ==
    \A s \in Sessions : \A i \in DOMAIN sent[s] : sent[s][i][1] = s

\* start_recording has cleared the buffer and stop_recording has not taken it
InRecording == sess > 0 /\ taken = NotTaken

\* C35: from the clear of start_recording to the take of stop_recording the
\* buffer only grows at its end. For the sender of the session this means: at
\* each tick the samples sent so far, which are its previous snapshot, are the
\* first last_sent samples of the buffer, and after the tick everything the
\* buffer held has been sent, each sample once.
C35_AppendOnlyDuringRecording ==
    [][(InRecording /\ InRecording') =>
          /\ IsPrefix(buffer, buffer')
          /\ (~no_overlay /\ taskPc[sess] = "tick") =>
                /\ last_sent[sess] <= Len(buffer)
                /\ sent[sess] = SubSeq(buffer, 1, last_sent[sess])
          /\ SenderSnapshotStep(sess) => sent'[sess] = buffer]_vars

\* after a first snapshot of one frame a second frame was appended, and the
\* last tick of the sender has sent exactly that frame
C35_Witness ==
    /\ InRecording
    /\ pc = "await_stream"
    /\ taskPc[sess] = "send_done"
    /\ last_sent[sess] = 1
    /\ Len(buffer) = 2
    /\ sent[sess] = buffer

\* ---- the event channel with a backlog ----

\* key events the channel holds at most while main is busy
MaxBacklog == 2

\* tx.send(..) by a listener thread, the channel holding a backlog
KeyEventBacklog(e) ==
    /\ Alive
    /\ Listening
    /\ Len(events) < MaxBacklog
    /\ nEvents < MaxEvents
    /\ events' = Append(events, e)
    /\ nEvents' = nEvents + 1
    /\ UNCHANGED <<mainVars, audioVars, taskVars, ovVars, histVars>>
    /\ UNCHANGED unitVars

BacklogNext ==
    \/ \E e \in {"Pressed", "Released"} : KeyEventBacklog(e)
    \/ Next

BacklogSpec == Init /\ [][BacklogNext]_vars

\* main is handling a Release: between the take of the Release and the return
\* to the event loop
Resolving ==
    pc \in {"await_stream", "stop_store", "stop_take", "resolve", "fb_sleep",
            "deliver", "join_idle", "join_paste", "transcribe"}

PartialQueued == \E t \in PartialTexts : ovQueue' = Append(ovQueue, UpdateText(t))

\* what holds of the receiver of the current session in every step: a final
\* text is kept only by the step that ends the receiver, an ended receiver
\* stays ended with its text, and a partial is queued for the overlay only by
\* a receiver that is running
ReceiverEndsOnFinal ==
    /\ \A s \in Sessions :
          (s = sess /\ sess' = sess) =>
              /\ recvText'[s] # recvText[s] =>
                    recvPc[s] = "running" /\ recvPc'[s] = "ended"
              /\ recvPc[s] = "ended" =>
                    recvPc'[s] = "ended" /\ recvText'[s] = recvText[s]
    /\ PartialQueued => ovSess \in Sessions /\ recvPc[ovSess] = "running"

C38_PasteAfterOverlayGone ==
    [][(~no_overlay /\ pasteLog' # <<>>) =>
          /\ pasteLog' # pasteLog => ovPc = "exited" /\ ovLog # <<>>
          /\ ovSess' = sess'
          /\ ovPc' = "exited"
          /\ ovLog' # <<>>
          /\ ovLog'[Len(ovLog')] = Finish(pasteLog'[1])]_vars

\* the overlay thread has played the fly-out of the batch text and ended, and
\* the text was pasted afterwards
C38_Witness ==
    /\ ~no_overlay
    /\ pasteLog = <<final_text>>
    /\ batchLog # <<>>
    /\ ovPc = "exited"
    /\ ovLog = <<Finish(final_text)>>

\* the overlay thread of the current session has returned
OverlayGone == ~no_overlay /\ sess > 0 /\ ovSess = sess /\ ovPc = "exited"

\* C39: once the overlay thread of the session has returned, whenever that
\* happens, nothing is queued for it (each send is dropped), main is never
\* held up between the Release and the end of the session (stop_recording,
\* the resolution, the sends and both joins go through), and a session of at
\* least 0.3 s that has ended took the streaming text if usable and the batch
\* answer otherwise, and pasted a non-empty text once.
C39_OverlayLossHarmless ==
    OverlayGone =>
        /\ ovQueue = <<>>
        /\ pc \in {"stop_store", "stop_take", "resolve", "fb_sleep", "deliver",
                   "join_idle", "join_paste"} => ENABLED MainStep
        /\ (SessionOver /\ LongAtStop) =>
              /\ StreamUsable(stream_result) =>
                    final_text = stream_result.text /\ batchLog = <<>>
              /\ ~StreamUsable(stream_result) => batchLog = <<taken>>
              /\ pasteLog = IF final_text # <<>> THEN <<final_text>> ELSE <<>>

\* the overlay thread returned before main had sent it anything; the
\* streaming text was resolved all the same and is about to be delivered
C39_Witness ==
    /\ OverlayGone
    /\ pc = "deliver"
    /\ ovLog = <<>>
    /\ final_text = <<"a">>
    /\ stream_result = OkText(<<"a">>)

\* C40: every command the overlay applies leaves the phase at FlyOut once it
\* is FlyOut (the phase changes only from Recording to FlyOut, on a Finish),
\* leaves done set once it is set, and, when it is an UpdateText, leaves the
\* text as it is in the FlyOut phase and makes its own text the text in the
\* Recording phase.
C40_PhaseOneWayFinalTextKept ==
    [][ovs.queue # <<>> =>
          LET c == Head(ovs.queue) IN
          /\ ovs.phase = "FlyOut" => ovs'.phase = "FlyOut"
          /\ ovs'.phase # ovs.phase => c.cmd = "Finish"
          /\ ovs.done => ovs'.done
          /\ c.cmd = "UpdateText" =>
                ovs'.text = IF ovs.phase = "Recording" THEN c.text ELSE ovs.text]_vars

\* a partial was applied, then the Finish; a partial that came after it was
\* applied without changing the text
C40_Witness ==
    /\ ovs.applied = <<UpdateText(<<" ">>), Finish(<<"a">>), UpdateText(<<" ">>)>>
    /\ ovs.phase = "FlyOut"
    /\ ovs.text = <<"a">>
    /\ ~ovs.done

====
